---------------------------- MODULE Spec2Model ----------------------------
(***************************************************************************)
(* A model of plasmapy/atomic/atomic.py: the isotope catalogue functions   *)
(* (known_isotopes, common_isotopes, stable_isotopes), the deprecated      *)
(* category recognizers (_is_neutron ... _is_alpha), the periodic table    *)
(* functions (periodic_table_period ... periodic_table_category) and       *)
(* ion_mass.                                                               *)
(*                                                                         *)
(* Python strings are sequences of one-character strings, so that the      *)
(* substring, slice, comparison and case operations of the source are      *)
(* computed and not assumed.  A Python value is a record                   *)
(* [type, int, str]; the outcome of a call is a record [exc, val] where    *)
(* exc = "none" means the call returned val, and any other exc is the      *)
(* name of the exception the call raised.                                  *)
(***************************************************************************)
EXTENDS Integers, Sequences, FiniteSets, TLC

VARIABLES
    _Isotopes,   \* the static isotope table (a dict: key order and records)
    _Elements,   \* the static element table (a dict: symbol to entry)
    call,        \* the last call made: [op, argument, flag, mass_numb, Z]
    result,      \* its outcome: [exc, val]
    used         \* the functions of plasmapy.atomic that call looked up and
                 \* the static tables it read

vars == <<_Isotopes, _Elements, call, result, used>>

---------------------------------------------------------------------------
(* Characters and strings                                                  *)

\* The characters of the identifiers, in code point order.
Chars ==
    <<" ","+","-","0","1","2","3","4","5","6","7","8","9",
      "A","B","C","D","E","F","G","H","I","J","K","L","M",
      "N","O","P","Q","R","S","T","U","V","W","X","Y","Z",
      "a","b","c","d","e","f","g","h","i","j","k","l","m",
      "n","o","p","q","r","s","t","u","v","w","x","y","z">>

Ord(c) == CHOOSE i \in 1..Len(Chars) : Chars[i] = c

UpperCase ==
    <<"A","B","C","D","E","F","G","H","I","J","K","L","M",
      "N","O","P","Q","R","S","T","U","V","W","X","Y","Z">>

LowerCase ==
    <<"a","b","c","d","e","f","g","h","i","j","k","l","m",
      "n","o","p","q","r","s","t","u","v","w","x","y","z">>

Digits == <<"0","1","2","3","4","5","6","7","8","9">>

IsDigit(c) == \E i \in 1..10 : Digits[i] = c

DigitValue(c) == (CHOOSE i \in 1..10 : Digits[i] = c) - 1

\* str.lower()
lower(s) ==
    [i \in 1..Len(s) |->
        IF \E k \in 1..26 : UpperCase[k] = s[i]
        THEN LowerCase[CHOOSE k \in 1..26 : UpperCase[k] = s[i]]
        ELSE s[i]]

\* Python's < on strings: lexicographic by code point, a proper prefix first.
StrLess(a, b) ==
    \E i \in 1..Len(b) :
        /\ i <= Len(a) + 1
        /\ \A k \in 1..(i - 1) : a[k] = b[k]
        /\ \/ i = Len(a) + 1
           \/ Ord(a[i]) < Ord(b[i])

\* Python's `needle in s` on strings.
Contains(needle, s) ==
    \E i \in 0..(Len(s) - Len(needle)) :
        SubSeq(s, i + 1, i + Len(needle)) = needle

\* Python's s[0:n].
Slice0(s, n) == SubSeq(s, 1, IF n < Len(s) THEN n ELSE Len(s))

\* Python's s.find(c) for a one-character c, as a 1-based position; 0 if absent.
FindChar(s, c) ==
    IF \E i \in 1..Len(s) : s[i] = c
    THEN CHOOSE i \in 1..Len(s) : s[i] = c /\ \A k \in 1..(i - 1) : s[k] # c
    ELSE 0

\* int(s) for a non-empty string of digits.
RECURSIVE ParseInt(_)
ParseInt(s) ==
    IF Len(s) = 0 THEN 0
    ELSE 10 * ParseInt(SubSeq(s, 1, Len(s) - 1)) + DigitValue(s[Len(s)])

AllDigits(s) == Len(s) > 0 /\ \A i \in 1..Len(s) : IsDigit(s[i])

\* list.insert(i, x), i >= 0: an index past the end appends.
ListInsert(s, i, x) ==
    LET k == IF i < Len(s) THEN i ELSE Len(s)
    IN  SubSeq(s, 1, k) \o <<x>> \o SubSeq(s, k + 1, Len(s))

\* list.reverse()
Reverse(s) == [i \in 1..Len(s) |-> s[Len(s) + 1 - i]]

---------------------------------------------------------------------------
(* Python values and outcomes                                              *)

PyNone == [type |-> "NoneType", int |-> 0, str |-> <<>>]
PyInt(n) == [type |-> "int", int |-> n, str |-> <<>>]
PyStr(s) == [type |-> "str", int |-> 0, str |-> s]
PyFloat == [type |-> "float", int |-> 0, str |-> <<>>]

Return(v) == [exc |-> "none", val |-> v]
Raise(e) == [exc |-> e, val |-> <<>>]

\* The exception classes of plasmapy.utils that this file names: each is a
\* direct subclass of AtomicError, none is a subclass of another.
ExceptionBase ==
    [e \in {"InvalidParticleError", "InvalidElementError",
            "InvalidIsotopeError", "InvalidIonError",
            "MissingAtomicDataError", "ChargeError"} |-> "AtomicError"]

\* issubclass(e, c)
IsSubclass(e, c) ==
    \/ e = c
    \/ e \in DOMAIN ExceptionBase /\ ExceptionBase[e] = c

\* try: body  except h[1].catch: raise h[1].throw  except h[2].catch: ...
\* The first clause whose class matches handles the exception.
TryExcept(body, handlers) ==
    IF body.exc = "none" THEN body
    ELSE IF \E i \in 1..Len(handlers) : IsSubclass(body.exc, handlers[i].catch)
         THEN LET i == CHOOSE j \in 1..Len(handlers) :
                         /\ IsSubclass(body.exc, handlers[j].catch)
                         /\ \A k \in 1..(j - 1) :
                                ~IsSubclass(body.exc, handlers[k].catch)
              IN  Raise(handlers[i].throw)
         ELSE body

---------------------------------------------------------------------------
(* The element table and the symbol resolver (plasmapy.atomic.elements,    *)
(* plasmapy.atomic.symbols, plasmapy.atomic.particle_class)                *)

\* The last atomic number: the loops run over range(1, 119).
NumElements == 118

_atomic_symbols ==
  <<
    <<"H">>, <<"H","e">>, <<"L","i">>, <<"B","e">>, <<"B">>, <<"C">>,
    <<"N">>, <<"O">>, <<"F">>, <<"N","e">>, <<"N","a">>, <<"M","g">>,
    <<"A","l">>, <<"S","i">>, <<"P">>, <<"S">>, <<"C","l">>, <<"A","r">>,
    <<"K">>, <<"C","a">>, <<"S","c">>, <<"T","i">>, <<"V">>, <<"C","r">>,
    <<"M","n">>, <<"F","e">>, <<"C","o">>, <<"N","i">>, <<"C","u">>,
    <<"Z","n">>, <<"G","a">>, <<"G","e">>, <<"A","s">>, <<"S","e">>,
    <<"B","r">>, <<"K","r">>, <<"R","b">>, <<"S","r">>, <<"Y">>,
    <<"Z","r">>, <<"N","b">>, <<"M","o">>, <<"T","c">>, <<"R","u">>,
    <<"R","h">>, <<"P","d">>, <<"A","g">>, <<"C","d">>, <<"I","n">>,
    <<"S","n">>, <<"S","b">>, <<"T","e">>, <<"I">>, <<"X","e">>,
    <<"C","s">>, <<"B","a">>, <<"L","a">>, <<"C","e">>, <<"P","r">>,
    <<"N","d">>, <<"P","m">>, <<"S","m">>, <<"E","u">>, <<"G","d">>,
    <<"T","b">>, <<"D","y">>, <<"H","o">>, <<"E","r">>, <<"T","m">>,
    <<"Y","b">>, <<"L","u">>, <<"H","f">>, <<"T","a">>, <<"W">>,
    <<"R","e">>, <<"O","s">>, <<"I","r">>, <<"P","t">>, <<"A","u">>,
    <<"H","g">>, <<"T","l">>, <<"P","b">>, <<"B","i">>, <<"P","o">>,
    <<"A","t">>, <<"R","n">>, <<"F","r">>, <<"R","a">>, <<"A","c">>,
    <<"T","h">>, <<"P","a">>, <<"U">>, <<"N","p">>, <<"P","u">>,
    <<"A","m">>, <<"C","m">>, <<"B","k">>, <<"C","f">>, <<"E","s">>,
    <<"F","m">>, <<"M","d">>, <<"N","o">>, <<"L","r">>, <<"R","f">>,
    <<"D","b">>, <<"S","g">>, <<"B","h">>, <<"H","s">>, <<"M","t">>,
    <<"D","s">>, <<"R","g">>, <<"C","n">>, <<"N","h">>, <<"F","l">>,
    <<"M","c">>, <<"L","v">>, <<"T","s">>, <<"O","g">>
  >>

ElementSymbols == { _atomic_symbols[z] : z \in 1..Len(_atomic_symbols) }

IsElementSymbol(s) == s \in ElementSymbols

\* Identifiers of particles that are no elements: neutron, electron, positron,
\* antiproton.
SpecialParticles ==
    { <<"n">>, <<"e","-">>, <<"e","+">>, <<"p","-">> }

\* The element an isotope identifier names: "D" and "T" are hydrogen, and
\* "<symbol>-<digits>" is the element <symbol>.  <<>> if s has neither form.
ElementOfIsotope(s) ==
    LET dash == FindChar(s, "-")
    IN  IF s = <<"D">> \/ s = <<"T">> THEN <<"H">>
        ELSE IF /\ dash > 1
                /\ IsElementSymbol(SubSeq(s, 1, dash - 1))
                /\ AllDigits(SubSeq(s, dash + 1, Len(s)))
             THEN SubSeq(s, 1, dash - 1)
             ELSE <<>>

\* atomic_symbol(argument): the symbol of the element that an atomic number,
\* an element symbol or an isotope identifier names.  TypeError for an argument
\* that is no string or integer, InvalidElementError for a particle that is no
\* element, InvalidParticleError for anything else.
atomic_symbol(argument) ==
    IF argument.type = "int"
    THEN IF argument.int \in 1..Len(_atomic_symbols)
         THEN Return(_atomic_symbols[argument.int])
         ELSE Raise("InvalidParticleError")
    ELSE IF argument.type = "str"
    THEN IF IsElementSymbol(argument.str) THEN Return(argument.str)
         ELSE IF ElementOfIsotope(argument.str) # <<>>
              THEN Return(ElementOfIsotope(argument.str))
         ELSE IF argument.str \in SpecialParticles
              THEN Raise("InvalidElementError")
         ELSE Raise("InvalidParticleError")
    ELSE Raise("TypeError")

\* mass_number(isotope) for an isotope key: 2 for "D", 3 for "T", and the
\* number after the dash otherwise.
mass_number(isotope) ==
    IF isotope = <<"D">> THEN Return(2)
    ELSE IF isotope = <<"T">> THEN Return(3)
    ELSE IF ElementOfIsotope(isotope) # <<>>
         THEN Return(ParseInt(SubSeq(isotope, FindChar(isotope, "-") + 1,
                                     Len(isotope))))
    ELSE Raise("InvalidIsotopeError")

---------------------------------------------------------------------------
(* The element table (plasmapy.atomic.elements._Elements)                  *)

\* An entry of the element table: the fields the periodic table functions
\* read.
ElementEntry(period, group, block, category) ==
    [period |-> PyInt(period), group |-> PyInt(group),
     block |-> PyStr(block), category |-> PyStr(category)]

ElementEntries ==
    { ElementEntry(period, group, block, category) :
        period \in {1, 2}, group \in {1, 18}, block \in {<<"s">>, <<"p">>},
        category \in { <<"n","o","n","m","e","t","a","l">>,
                       <<"n","o","b","l","e"," ","g","a","s">> } }

\* The table with the entries hydrogen and helium for H and He; the other
\* elements, which no call of the model names, share one entry.
ElementTable(hydrogen, helium) ==
    [symbol \in ElementSymbols |->
        IF symbol = <<"H">> THEN hydrogen
        ELSE IF symbol = <<"H","e">> THEN helium
        ELSE ElementEntry(7, 18, <<"p">>, <<"n","o","b","l","e"," ","g","a","s">>)]

ElementTables ==
    { ElementTable(hydrogen, helium) : hydrogen, helium \in ElementEntries }

\* The table as the periodic table has it for hydrogen and helium.
PeriodicTable ==
    ElementTable(ElementEntry(1, 1, <<"s">>, <<"n","o","n","m","e","t","a","l">>),
                 ElementEntry(1, 18, <<"s">>, <<"n","o","b","l","e"," ","g","a","s">>))

\* _Elements[symbol][field]
ElementGet(symbol, field) ==
    IF symbol \notin DOMAIN _Elements THEN Raise("KeyError")
    ELSE Return(IF field = "period" THEN _Elements[symbol].period
                ELSE IF field = "group" THEN _Elements[symbol].group
                ELSE IF field = "block" THEN _Elements[symbol].block
                ELSE _Elements[symbol].category)

---------------------------------------------------------------------------
(* The isotope table (plasmapy.atomic.isotopes._Isotopes)                  *)

H_1 == <<"H","-","1">>
D == <<"D">>
T == <<"T">>
H_4 == <<"H","-","4">>
He_3 == <<"H","e","-","3">>
He_4 == <<"H","e","-","4">>
He_10 == <<"H","e","-","1","0">>

\* The most isotope keys a table holds besides H-1, D and T.
MaxExtraKeys == 2

\* Isotopic abundances are 1..MaxAbundance (only their order matters).
MaxAbundance == 2

\* The keys a table may hold besides H-1, D and T.  The table stores the
\* hydrogen isotopes of mass 2 and 3 under "D" and "T", never as H-2 or H-3.
ExtraKeys == <<H_4, He_3, He_4, He_10>>

\* An isotope record is a dict: keys is the set of its keys.
\* isotopic_abundance is there only for naturally occurring isotopes.
Record(abundance, stable) ==
    [keys |-> IF abundance = 0 THEN {"is_stable"}
              ELSE {"is_stable", "isotopic_abundance"},
     isotopic_abundance |-> abundance,
     is_stable |-> stable]

\* The record of an isotope for which no stability information is available
\* (is_isotope_stable documents the case); such an isotope does not occur
\* naturally.
RecordWithoutStability ==
    [keys |-> {}, isotopic_abundance |-> 0, is_stable |-> FALSE]

Records ==
    { Record(a, s) : a \in 0..MaxAbundance, s \in BOOLEAN }
    \cup { RecordWithoutStability }

\* common_isotopes('H') is ['H-1', 'D'] and stable_isotopes('H') is
\* ['H-1', 'D']: H-1 and D are stable and abundant, H-1 more than D; the
\* other isotopes of hydrogen are neither.
HydrogenRecords ==
    [k \in {H_1, D, T, H_4} |->
        IF k = H_1 THEN Record(2, TRUE)
        ELSE IF k = D THEN Record(1, TRUE)
        ELSE Record(0, FALSE)]

\* A table: order is the iteration order of its keys (a dict keeps the order
\* of insertion, which need not be that of the mass numbers), rec its records.
Table(present, reversed, extra) ==
    LET listed == <<H_1, D, T>> \o
                  SelectSeq(ExtraKeys, LAMBDA k : k \in present)
    IN  [order |-> IF reversed THEN Reverse(listed) ELSE listed,
         rec |-> [k \in {H_1, D, T} \cup present |->
                     IF k \in DOMAIN HydrogenRecords THEN HydrogenRecords[k]
                     ELSE extra[k]]]

Tables ==
    UNION { { Table(present, reversed, extra) :
                reversed \in BOOLEAN,
                extra \in [present \ DOMAIN HydrogenRecords -> Records] } :
            present \in { S \in SUBSET { ExtraKeys[i] : i \in 1..Len(ExtraKeys) } :
                            Cardinality(S) <= MaxExtraKeys } }

\* _Isotopes.keys()
TableKeys == _Isotopes.order

\* _Isotopes[isotope][field]: KeyError if the table has no such key or the
\* record no such field.
TableGet(isotope, field) ==
    IF isotope \notin DOMAIN _Isotopes.rec THEN Raise("KeyError")
    ELSE IF field \notin _Isotopes.rec[isotope].keys THEN Raise("KeyError")
    ELSE IF field = "is_stable" THEN Return(_Isotopes.rec[isotope].is_stable)
    ELSE Return(_Isotopes.rec[isotope].isotopic_abundance)

\* 'isotopic_abundance' in _Isotopes[isotope].keys()
TableHas(isotope, field) ==
    IF isotope \notin DOMAIN _Isotopes.rec THEN Raise("KeyError")
    ELSE Return(field \in _Isotopes.rec[isotope].keys)

---------------------------------------------------------------------------
(* sorted(zip(numbers, keys))                                              *)

\* zip(a, b): the pairs, as many as the shorter list has.
zip(a, b) ==
    [i \in 1..(IF Len(a) < Len(b) THEN Len(a) ELSE Len(b)) |-> <<a[i], b[i]>>]

\* TupleLess comparing the numbers only, never the strings.
TupleLess_FirstOnly(p, q) ==
    p[1] < q[1]

\* Python's < on (number, string) tuples.
TupleLess(p, q) ==
    \/ p[1] < q[1]
    \/ p[1] = q[1] /\ StrLess(p[2], q[2])

\* The sorted list rest with the pair last put in its place: after the
\* entries that are not greater (sorted is stable).
InsertSorted(rest, last) ==
    SubSeq(rest, 1,
           Cardinality({ i \in 1..Len(rest) : ~TupleLess(last, rest[i]) }))
    \o <<last>> \o
    SubSeq(rest,
           Cardinality({ i \in 1..Len(rest) : ~TupleLess(last, rest[i]) }) + 1,
           Len(rest))

\* sorted(pairs): ascending.
RECURSIVE sorted(_)
sorted(pairs) ==
    IF Len(pairs) <= 1 THEN pairs
    ELSE InsertSorted(sorted(SubSeq(pairs, 1, Len(pairs) - 1)),
                      pairs[Len(pairs)])

\* [second for (first, second) in pairs]
Seconds(pairs) == [i \in 1..Len(pairs) |-> pairs[i][2]]

\* The first exception among outcomes, "none" if there is none.
FirstException(outcomes) ==
    IF \E i \in 1..Len(outcomes) : outcomes[i].exc # "none"
    THEN outcomes[CHOOSE i \in 1..Len(outcomes) :
                     /\ outcomes[i].exc # "none"
                     /\ \A k \in 1..(i - 1) : outcomes[k].exc = "none"].exc
    ELSE "none"

Values(outcomes) == [i \in 1..Len(outcomes) |-> outcomes[i].val]

---------------------------------------------------------------------------
(* known_isotopes                                                          *)

\* KeyMatchesElement without the dash: any key that starts with the symbol.
KeyMatchesElement_PrefixOnly(element, isotope) ==
    Slice0(isotope, Len(element)) = element

\* element + '-' in isotope and isotope[0:len(element)] == element
KeyMatchesElement(element, isotope) ==
    /\ Contains(element \o <<"-">>, isotope)
    /\ Slice0(isotope, Len(element)) = element

\* SortByMass without the sort: the keys in the order they were collected.
SortByMass_Unsorted(mass_numbers, isotopes) ==
    isotopes

\* [key for (mass, key) in sorted(zip(mass_numbers, isotopes))]
SortByMass(mass_numbers, isotopes) ==
    Seconds(sorted(zip(mass_numbers, isotopes)))

\* for isotope in _Isotopes.keys(): if ...: isotopes.append(isotope)
ScanTable(element) ==
    SelectSeq(TableKeys, LAMBDA isotope : KeyMatchesElement(element, isotope))

\* if element == 'H': isotopes.insert(1, 'D'); isotopes.insert(2, 'T')
InsertHydrogenAliases(element, isotopes) ==
    IF element = <<"H">>
    THEN ListInsert(ListInsert(isotopes, 1, D), 2, T)
    ELSE isotopes

\* mass_numbers = [mass_number(isotope) for isotope in isotopes]
MassNumbers(isotopes) ==
    [i \in 1..Len(isotopes) |-> mass_number(isotopes[i])]

\* The sorted list, or the exception that a mass_number call raised.
SortedIsotopes(mass_numbers, isotopes) ==
    IF FirstException(mass_numbers) # "none"
    THEN Raise(FirstException(mass_numbers))
    ELSE Return(SortByMass(Values(mass_numbers), isotopes))

\* The last three lines of known_isotopes_for_element.
SortedByMassNumber(isotopes) ==
    SortedIsotopes(MassNumbers(isotopes), isotopes)

\* The body of known_isotopes_for_element after element = atomic_symbol(...)
IsotopesOfElement(element) ==
    SortedByMassNumber(InsertHydrogenAliases(element, ScanTable(element)))

\* A step that needs the value of an earlier call: the exception if that call
\* raised.
known_isotopes_of(symbol) ==
    IF symbol.exc # "none" THEN symbol ELSE IsotopesOfElement(symbol.val)

known_isotopes_for_element(argument) ==
    known_isotopes_of(atomic_symbol(argument))

\* ListExtend putting the new part in front of the list.
ListExtend_InFront(isotopes_list, part) ==
    part \o isotopes_list

\* isotopes_list += part
ListExtend(isotopes_list, part) == isotopes_list \o part

\* Two runs of loop steps, one after the other: the list of the first
\* extended by that of the second, or the first exception, which ends the loop.
LoopJoin(first, second) ==
    IF first.exc # "none" THEN first
    ELSE IF second.exc # "none" THEN second
    ELSE Return(ListExtend(first.val, second.val))

\* for atomic_numb in range(lo, hi + 1):
\*     isotopes_list += known_isotopes_for_element(atomic_numb)
\* (the steps lo..hi as two runs, so that the recursion stays shallow)
RECURSIVE known_isotopes_loop(_, _)
known_isotopes_loop(lo, hi) ==
    IF lo = hi
    THEN LoopJoin(Return(<<>>), known_isotopes_for_element(PyInt(lo)))
    ELSE LoopJoin(known_isotopes_loop(lo, (lo + hi) \div 2),
                  known_isotopes_loop((lo + hi) \div 2 + 1, hi))

\* The except clauses of known_isotopes, in their order.
known_isotopes_handlers ==
    << [catch |-> "InvalidElementError", throw |-> "InvalidElementError"],
       [catch |-> "InvalidParticleError", throw |-> "InvalidParticleError"] >>

\* element = atomic_symbol(argument)
\* isotopes_list = known_isotopes_for_element(element)
known_isotopes_try(element) ==
    IF element.exc # "none" THEN element
    ELSE known_isotopes_for_element(PyStr(element.val))

known_isotopes(argument) ==
    IF argument # PyNone
    THEN TryExcept(known_isotopes_try(atomic_symbol(argument)),
                   known_isotopes_handlers)
    ELSE known_isotopes_loop(1, NumElements)

---------------------------------------------------------------------------
(* common_isotopes                                                         *)

\* 'isotopic_abundance' in _Isotopes[isotope].keys()
HasAbundance(isotope) == TableHas(isotope, "isotopic_abundance")

\* SortByAbundance without the reverse().
SortByAbundance_NotReversed(isotopic_abundances, CommonIsotopes) ==
    Seconds(sorted(zip(isotopic_abundances, CommonIsotopes)))

\* [key for (abundance, key) in sorted(zip(isotopic_abundances, CommonIsotopes))]
\* and then sorted_isotopes.reverse()
SortByAbundance(isotopic_abundances, CommonIsotopes) ==
    Reverse(Seconds(sorted(zip(isotopic_abundances, CommonIsotopes))))

\* MostCommon cutting only lists longer than two.
MostCommon_OverTwo(most_common_only, sorted_isotopes) ==
    IF most_common_only /\ Len(sorted_isotopes) > 2
    THEN SubSeq(sorted_isotopes, 1, 1)
    ELSE sorted_isotopes

\* if most_common_only and len(sorted_isotopes) > 1:
\*     sorted_isotopes = sorted_isotopes[0:1]
MostCommon(most_common_only, sorted_isotopes) ==
    IF most_common_only /\ Len(sorted_isotopes) > 1
    THEN SubSeq(sorted_isotopes, 1, 1)
    ELSE sorted_isotopes

\* isotopic_abundances = [_Isotopes[isotope]['isotopic_abundance']
\*                        for isotope in CommonIsotopes]
IsotopicAbundances(CommonIsotopes) ==
    [i \in 1..Len(CommonIsotopes) |->
        TableGet(CommonIsotopes[i], "isotopic_abundance")]

\* The sorted, reversed and cut list, or the exception that reading an
\* abundance raised.
RankedIsotopes(isotopic_abundances, CommonIsotopes, most_common_only) ==
    IF FirstException(isotopic_abundances) # "none"
    THEN Raise(FirstException(isotopic_abundances))
    ELSE Return(MostCommon(most_common_only,
                    SortByAbundance(Values(isotopic_abundances), CommonIsotopes)))

\* CommonIsotopes = [isotope for isotope in isotopes if
\*                   'isotopic_abundance' in _Isotopes[isotope].keys()]
SelectCommon(isotopes) ==
    SelectSeq(isotopes, LAMBDA isotope : HasAbundance(isotope).val)

\* The body of common_isotopes_for_element after isotopes = known_isotopes(...)
common_isotopes_of(isotopes, most_common_only) ==
    IF isotopes.exc # "none" THEN isotopes
    ELSE IF FirstException([i \in 1..Len(isotopes.val) |->
                               HasAbundance(isotopes.val[i])]) # "none"
    THEN Raise(FirstException([i \in 1..Len(isotopes.val) |->
                                  HasAbundance(isotopes.val[i])]))
    ELSE RankedIsotopes(IsotopicAbundances(SelectCommon(isotopes.val)),
                        SelectCommon(isotopes.val), most_common_only)

common_isotopes_for_element(argument, most_common_only) ==
    common_isotopes_of(known_isotopes(argument), most_common_only)

RECURSIVE common_isotopes_loop(_, _, _)
common_isotopes_loop(lo, hi, most_common_only) ==
    IF lo = hi
    THEN LoopJoin(Return(<<>>),
                  common_isotopes_for_element(PyInt(lo), most_common_only))
    ELSE LoopJoin(common_isotopes_loop(lo, (lo + hi) \div 2, most_common_only),
                  common_isotopes_loop((lo + hi) \div 2 + 1, hi, most_common_only))

\* common_isotopes_handlers with each clause raising the other kind.
common_isotopes_handlers_Swapped ==
    << [catch |-> "InvalidParticleError", throw |-> "InvalidElementError"],
       [catch |-> "InvalidElementError", throw |-> "InvalidParticleError"] >>

\* The except clauses of common_isotopes, in their order.
common_isotopes_handlers ==
    << [catch |-> "InvalidParticleError", throw |-> "InvalidParticleError"],
       [catch |-> "InvalidElementError", throw |-> "InvalidElementError"] >>

common_isotopes_try(element, most_common_only) ==
    IF element.exc # "none" THEN element
    ELSE common_isotopes_for_element(PyStr(element.val), most_common_only)

common_isotopes(argument, most_common_only) ==
    IF argument # PyNone
    THEN TryExcept(common_isotopes_try(atomic_symbol(argument), most_common_only),
                   common_isotopes_handlers)
    ELSE common_isotopes_loop(1, NumElements, most_common_only)

---------------------------------------------------------------------------
(* stable_isotopes                                                         *)

\* The outcome of comparing a stability flag with stable_only.
FlagIs(is_stable, stable_only) ==
    IF is_stable.exc # "none" THEN is_stable
    ELSE Return(is_stable.val = stable_only)

\* _Isotopes[isotope]['is_stable'] == stable_only
StabilityIs(isotope, stable_only) ==
    FlagIs(TableGet(isotope, "is_stable"), stable_only)

\* The body of stable_isotopes_for_element after
\* KnownIsotopes = known_isotopes(argument)
stable_isotopes_of(KnownIsotopes, stable_only) ==
    IF KnownIsotopes.exc # "none" THEN KnownIsotopes
    ELSE IF FirstException([i \in 1..Len(KnownIsotopes.val) |->
                StabilityIs(KnownIsotopes.val[i], stable_only)]) # "none"
    THEN Raise(FirstException([i \in 1..Len(KnownIsotopes.val) |->
                StabilityIs(KnownIsotopes.val[i], stable_only)]))
    ELSE Return(SelectSeq(KnownIsotopes.val,
                    LAMBDA isotope : StabilityIs(isotope, stable_only).val))

stable_isotopes_for_element(argument, stable_only) ==
    stable_isotopes_of(known_isotopes(argument), stable_only)

RECURSIVE stable_isotopes_loop(_, _, _)
stable_isotopes_loop(lo, hi, stable_only) ==
    IF lo = hi
    THEN LoopJoin(Return(<<>>),
                  stable_isotopes_for_element(PyInt(lo), stable_only))
    ELSE LoopJoin(stable_isotopes_loop(lo, (lo + hi) \div 2, stable_only),
                  stable_isotopes_loop((lo + hi) \div 2 + 1, hi, stable_only))

\* The except clauses of stable_isotopes, in their order.
stable_isotopes_handlers ==
    << [catch |-> "InvalidParticleError", throw |-> "InvalidParticleError"],
       [catch |-> "InvalidElementError", throw |-> "InvalidElementError"] >>

stable_isotopes_try(element, stable_only) ==
    IF element.exc # "none" THEN element
    ELSE stable_isotopes_for_element(PyStr(element.val), stable_only)

stable_isotopes(argument, unstable) ==
    IF argument # PyNone
    THEN TryExcept(stable_isotopes_try(atomic_symbol(argument), ~unstable),
                   stable_isotopes_handlers)
    ELSE stable_isotopes_loop(1, NumElements, ~unstable)

---------------------------------------------------------------------------
(* The names of the module and the charge extractor                        *)

\* The names the recognizers call, as a module binds them that imports the
\* extractor too.
ModuleNames_WithExtractor ==
    { "_extract_integer_charge", "InvalidParticleError", "isotope_symbol" }

\* The global names atomic.py binds: those its import statements bring in
\* and the functions it defines.  Python's builtins hold none of the names
\* the recognizers call.
ModuleNames ==
    {
      "np", "warnings", "Union", "Optional", "List", "Tuple", "Any", "re",
      "u", "const", "Quantity", "_Elements", "_atomic_symbols_dict",
      "_atomic_symbols", "_Isotopes", "Particle", "particle_input",
      "AtomicWarning", "InvalidElementError", "InvalidIsotopeError",
      "InvalidIonError", "AtomicError", "MissingAtomicDataError",
      "MissingAtomicDataWarning", "InvalidParticleError", "ChargeError",
      "atomic_symbol", "isotope_symbol", "ion_symbol", "particle_symbol",
      "_is_neutron", "atomic_number", "mass_number", "standard_atomic_weight",
      "isotope_mass", "ion_mass", "particle_mass", "isotopic_abundance",
      "integer_charge", "electric_charge", "is_isotope_stable", "half_life",
      "known_isotopes", "common_isotopes", "stable_isotopes", "_is_hydrogen",
      "_is_electron", "_is_positron", "_is_antiproton", "_is_antineutron",
      "_is_proton", "_is_alpha", "periodic_table_period",
      "periodic_table_group", "periodic_table_block",
      "periodic_table_category" }

\* A call of the global `name`: the callee's outcome if the name is bound,
\* and NameError if it is not.
CallGlobal(name, outcome) ==
    IF name \in ModuleNames THEN outcome ELSE Raise("NameError")

PyBool(b) == [type |-> "bool", int |-> IF b THEN 1 ELSE 0, str |-> <<>>]

\* Python's `value == n` for an integer n: true of the integer n (and of the
\* boolean that equals it); the float of the model is no whole number.
PyEq(value, n) == value.type \in {"int", "bool"} /\ value.int = n

IsSign(c) == c = "+" \/ c = "-"

SignOf(c) == IF c = "+" THEN 1 ELSE -1

\* The position of the last blank of s; 0 if it has none.
LastBlank(s) ==
    IF \E i \in 1..Len(s) : s[i] = " "
    THEN CHOOSE i \in 1..Len(s) :
             s[i] = " " /\ \A k \in (i + 1)..Len(s) : s[k] # " "
    ELSE 0

\* A charge token: a sign and then digits, or digits and then a sign.
IsChargeToken(token) ==
    /\ Len(token) >= 2
    /\ \/ IsSign(token[1]) /\ AllDigits(Tail(token))
       \/ IsSign(token[Len(token)]) /\ AllDigits(SubSeq(token, 1, Len(token) - 1))

ChargeOfToken(token) ==
    IF IsSign(token[1])
    THEN SignOf(token[1]) * ParseInt(Tail(token))
    ELSE SignOf(token[Len(token)]) * ParseInt(SubSeq(token, 1, Len(token) - 1))

\* The length of the longest run of one character that ends s.
TrailingRun(s) ==
    Cardinality({ k \in 1..Len(s) :
                    \A i \in (Len(s) - k + 1)..Len(s) : s[i] = s[Len(s)] })

\* The body ends in digits that no dash introduces as a mass number: digits
\* meant as a charge, written without the blank.
DigitsAsCharge(body) ==
    /\ Len(body) > 0
    /\ IsDigit(body[Len(body)])
    /\ \E i \in 1..Len(body) :
           /\ \A k \in i..Len(body) : IsDigit(body[k])
           /\ (i = 1 \/ ~IsDigit(body[i - 1]))
           /\ (i = 1 \/ body[i - 1] # "-")

Extracted(body, Z) == Return([body |-> body, Z |-> Z])

\* The identifier with a blank: body, blank, charge token.  Any other last
\* token leaves the identifier whole, with no charge.
ExtractAfterBlank(argument, blank) ==
    IF IsChargeToken(SubSeq(argument, blank + 1, Len(argument)))
    THEN Extracted(SubSeq(argument, 1, blank - 1),
                   PyInt(ChargeOfToken(SubSeq(argument, blank + 1, Len(argument)))))
    ELSE Extracted(argument, PyNone)

\* The identifier that ends in a run of n equal signs: the charge is n with
\* that sign.  A sign of the other kind before the run, or digits meant as a
\* charge before it, make the identifier invalid.
ExtractSignRun(argument, run) ==
    IF \/ run < Len(argument) /\ IsSign(argument[Len(argument) - run])
       \/ DigitsAsCharge(SubSeq(argument, 1, Len(argument) - run))
    THEN Raise("InvalidParticleError")
    ELSE Extracted(SubSeq(argument, 1, Len(argument) - run),
                   PyInt(SignOf(argument[Len(argument)]) * run))

\* _extract_integer_charge(argument) -> (body, Z)
_extract_integer_charge(argument) ==
    IF argument.type # "str" THEN Raise("TypeError")
    ELSE IF LastBlank(argument.str) > 0
    THEN ExtractAfterBlank(argument.str, LastBlank(argument.str))
    ELSE IF Len(argument.str) > 0 /\ IsSign(argument.str[Len(argument.str)])
    THEN ExtractSignRun(argument.str, TrailingRun(argument.str))
    ELSE Extracted(argument.str, PyNone)

\* str(n) for n >= 0
RECURSIVE FormatInt(_)
FormatInt(n) ==
    IF n < 10 THEN <<Digits[n + 1]>>
    ELSE FormatInt(n \div 10) \o <<Digits[(n % 10) + 1]>>

\* The names of the isotopes of hydrogen, in lower case.
HydrogenIsotopeNames ==
    [name \in {
        <<"p">>, <<"p","r","o","t","o","n">>, <<"p","r","o","t","i","u","m">>,
        <<"d","e","u","t","e","r","i","u","m">>,
        <<"d","e","u","t","e","r","o","n">>, <<"t","r","i","t","i","u","m">>,
        <<"t","r","i","t","o","n">> } |->
        IF name \in { <<"p">>, <<"p","r","o","t","i","u","m">> } THEN H_1
        ELSE IF name \in { <<"d","e","u","t","e","r","i","u","m">>, <<"d","e","u","t","e","r","o","n">> } THEN D
        ELSE T]

\* The isotope that the body of an identifier names, with the mass number
\* given apart if there is one.
IsotopeOfBody(body, mass_numb) ==
    IF lower(body) \in DOMAIN HydrogenIsotopeNames /\ (Len(body) > 1 \/ body = <<"p">>)
    THEN Return(HydrogenIsotopeNames[lower(body)])
    ELSE IF body = D \/ body = T THEN Return(body)
    ELSE IF ElementOfIsotope(body) # <<>>
    THEN IF mass_numb = PyNone \/ PyEq(mass_numb, mass_number(body).val)
         THEN Return(body)
         ELSE Raise("InvalidParticleError")
    ELSE IF IsElementSymbol(body)
    THEN IF mass_numb.type = "int" /\ mass_numb.int > 0
         THEN Return(body \o <<"-">> \o FormatInt(mass_numb.int))
         ELSE Raise("InvalidIsotopeError")
    ELSE IF body \in SpecialParticles THEN Raise("InvalidIsotopeError")
    ELSE Raise("InvalidParticleError")

IsotopeOfExtracted(extracted, mass_numb) ==
    IF extracted.exc # "none" THEN Raise("InvalidParticleError")
    ELSE IsotopeOfBody(extracted.val.body, mass_numb)

\* isotope_symbol(argument, mass_numb): the key of the isotope that an
\* identifier (its charge left aside) or an atomic number with a mass number
\* names.  TypeError for an argument that is no string or integer,
\* InvalidIsotopeError for a particle that is no isotope, InvalidParticleError
\* for anything else.
isotope_symbol(argument, mass_numb) ==
    IF argument.type = "str"
    THEN IsotopeOfExtracted(_extract_integer_charge(argument), mass_numb)
    ELSE IF argument.type = "int"
    THEN IF argument.int \in 1..Len(_atomic_symbols)
         THEN IsotopeOfBody(_atomic_symbols[argument.int], mass_numb)
         ELSE Raise("InvalidParticleError")
    ELSE Raise("TypeError")

---------------------------------------------------------------------------
(* The category recognizers                                                *)

\* Every recognizer first calls warnings.warn(..., DeprecationWarning), which
\* under the default filters changes neither the outcome nor the tables.

_is_neutron(argument, mass_numb) ==
    IF PyEq(argument, 0) /\ PyEq(mass_numb, 1) THEN Return(PyBool(TRUE))
    ELSE IF argument.type = "str" /\ mass_numb = PyNone
    THEN IF \/ argument.str \in { <<"n">>, <<"n","-","1">> }
            \/ lower(argument.str) \in { <<"n","e","u","t","r","o","n">>, <<"n","0">> }
         THEN Return(PyBool(TRUE))
         ELSE Return(PyBool(FALSE))
    ELSE Return(PyBool(FALSE))

\* ['p', 'p+', 'H', 'D', 'T'] and 'H-1' ... 'H-7'
case_sensitive_aliases ==
    { <<"p">>, <<"p","+">>, <<"H">>, <<"D">>, <<"T">> }
    \cup { <<"H","-">> \o FormatInt(mass_numb) : mass_numb \in 1..7 }

\* ['proton', 'protium', ..., 'hydrogen'] and 'hydrogen-1' ... 'hydrogen-7'
case_insensitive_aliases ==
    {
      <<"p","r","o","t","o","n">>, <<"p","r","o","t","i","u","m">>,
      <<"d","e","u","t","e","r","i","u","m">>,
      <<"d","e","u","t","e","r","o","n">>, <<"t","r","i","t","o","n">>,
      <<"t","r","i","t","i","u","m">>, <<"h","y","d","r","o","g","e","n">> }
    \cup { <<"h","y","d","r","o","g","e","n">> \o <<"-">> \o FormatInt(mass_numb) : mass_numb \in 1..7 }

\* if argument in case_sensitive_aliases: is_hydrogen = True
\* else: is_hydrogen = argument.lower() in case_insensitive_aliases
IsHydrogenAlias(argument) ==
    \/ argument \in case_sensitive_aliases
    \/ lower(argument) \in case_insensitive_aliases

\* The string branch of _is_hydrogen after
\* argument, Z = _extract_integer_charge(argument)
_is_hydrogen_of(extracted) ==
    IF extracted.exc # "none" THEN extracted
    ELSE IF /\ IsHydrogenAlias(extracted.val.body)
            /\ extracted.val.Z # PyNone
            /\ extracted.val.Z.int > 1
    THEN Raise("InvalidParticleError")
    ELSE Return(PyBool(IsHydrogenAlias(extracted.val.body)))

_is_hydrogen(argument, can_be_atomic_number) ==
    IF argument.type = "str"
    THEN _is_hydrogen_of(CallGlobal("_extract_integer_charge",
                                    _extract_integer_charge(argument)))
    ELSE IF PyEq(argument, 1) /\ can_be_atomic_number
    THEN Return(PyBool(TRUE))
    ELSE Return(PyBool(FALSE))

_is_electron(arg) ==
    IF arg.type # "str" THEN Return(PyBool(FALSE))
    ELSE Return(PyBool(\/ arg.str \in { <<"e">>, <<"e","-">> }
                       \/ lower(arg.str) = <<"e","l","e","c","t","r","o","n">>))

_is_positron(arg) ==
    IF arg.type # "str" THEN Return(PyBool(FALSE))
    ELSE Return(PyBool(\/ arg.str = <<"e","+">>
                       \/ lower(arg.str) = <<"p","o","s","i","t","r","o","n">>))

_is_antiproton(arg) ==
    IF arg.type # "str" THEN Return(PyBool(FALSE))
    ELSE Return(PyBool(\/ arg.str = <<"p","-">>
                       \/ lower(arg.str) = <<"a","n","t","i","p","r","o","t","o","n">>))

_is_antineutron(arg) ==
    IF arg.type # "str" THEN Return(PyBool(FALSE))
    ELSE Return(PyBool(lower(arg.str) = <<"a","n","t","i","n","e","u","t","r","o","n">>))

\* try: isotope = isotope_symbol(arg, mass_numb)
\* except Exception: return False
\* return isotope == 'H-1' and Z == 1
IsProtonIsotope(isotope, Z) ==
    IF isotope.exc # "none" THEN Return(PyBool(FALSE))
    ELSE Return(PyBool(isotope.val = H_1 /\ PyEq(Z, 1)))

\* The body of _is_proton after
\* argument, Z_from_arg = _extract_integer_charge(arg)
_is_proton_of(extracted, arg, Z, mass_numb) ==
    IF extracted.exc # "none" THEN extracted
    ELSE IF (Z = PyNone) = (extracted.val.Z = PyNone)
    THEN Return(PyBool(FALSE))
    ELSE IsProtonIsotope(CallGlobal("isotope_symbol", isotope_symbol(arg, mass_numb)),
                         IF Z = PyNone THEN extracted.val.Z ELSE Z)

_is_proton(arg, Z, mass_numb) ==
    _is_proton_of(CallGlobal("_extract_integer_charge",
                             _extract_integer_charge(arg)),
                  arg, Z, mass_numb)

\* Python's s[-2:]
LastTwo(s) == SubSeq(s, IF Len(s) > 2 THEN Len(s) - 1 ELSE 1, Len(s))

\* arg[:arg.find('-')] of a string that has a dash
BeforeDash(s) == SubSeq(s, 1, FindChar(s, "-") - 1)

\* The last branch of _is_alpha after
\* arg, Z = _extract_integer_charge(arg)
_is_alpha_of(extracted) ==
    IF extracted.exc # "none" THEN extracted
    ELSE IF ~PyEq(extracted.val.Z, 2) \/ LastTwo(extracted.val.body) # <<"-","4">>
    THEN Return(PyBool(FALSE))
    ELSE Return(PyBool(\/ lower(BeforeDash(extracted.val.body)) = <<"h","e","l","i","u","m">>
                       \/ BeforeDash(extracted.val.body) = <<"H","e">>))

\* A variant of _is_alpha that extracts the charge before it looks for
\* "alpha".
_is_alpha_ExtractFirst(arg) ==
    IF arg.type # "str" THEN Return(PyBool(FALSE))
    ELSE IF CallGlobal("_extract_integer_charge",
                       _extract_integer_charge(arg)).exc # "none"
    THEN CallGlobal("_extract_integer_charge", _extract_integer_charge(arg))
    ELSE IF lower(arg.str) = <<"a","l","p","h","a">> THEN Return(PyBool(TRUE))
    ELSE IF Contains(<<"a","l","p","h","a">>, lower(arg.str))
    THEN Raise("InvalidParticleError")
    ELSE _is_alpha_of(_extract_integer_charge(arg))

_is_alpha(arg) ==
    IF arg.type # "str" THEN Return(PyBool(FALSE))
    ELSE IF lower(arg.str) = <<"a","l","p","h","a">> THEN Return(PyBool(TRUE))
    ELSE IF Contains(<<"a","l","p","h","a">>, lower(arg.str))
    THEN Raise("InvalidParticleError")
    ELSE _is_alpha_of(CallGlobal("_extract_integer_charge",
                                 _extract_integer_charge(arg)))

---------------------------------------------------------------------------
(* The catalogue calls                                                     *)

\* The arguments the calls are made with.
Arguments ==
    { PyNone, PyInt(1), PyInt(2), PyInt(119),
      PyStr(<<"H">>), PyStr(<<"H","e">>), PyStr(He_4),
      PyStr(<<"n">>), PyStr(<<"x","x">>), PyFloat }

Call(op, argument, flag, mass_numb, Z) ==
    [op |-> op, argument |-> argument, flag |-> flag,
     mass_numb |-> mass_numb, Z |-> Z]

\* No call is in progress.
Idle == Call("none", PyNone, FALSE, PyNone, PyNone)

\* What a catalogue call uses: the resolver, then the isotope table, and
\* mass_number when the list to sort is not empty (with no argument the list
\* of hydrogen, which has D and T, is never empty).
CatalogueUses(argument) ==
    IF argument = PyNone THEN {"atomic_symbol", "_Isotopes", "mass_number"}
    ELSE IF atomic_symbol(argument).exc # "none" THEN {"atomic_symbol"}
    ELSE IF InsertHydrogenAliases(atomic_symbol(argument).val,
                                  ScanTable(atomic_symbol(argument).val)) = <<>>
    THEN {"atomic_symbol", "_Isotopes"}
    ELSE {"atomic_symbol", "_Isotopes", "mass_number"}

Init ==
    /\ _Isotopes \in Tables
    /\ _Elements = PeriodicTable
    /\ call = Idle
    /\ result = Return(<<>>)
    /\ used = {}

\* A variant of known_isotopes whose reversal acts on the keys of the table
\* and not on a list of its own.
CallKnownIsotopes_InPlace(argument) ==
    /\ call = Idle
    /\ call' = Call("known_isotopes", argument, FALSE, PyNone, PyNone)
    /\ result' = known_isotopes(argument)
    /\ used' = CatalogueUses(argument)
    /\ _Isotopes' = [_Isotopes EXCEPT !.order = Reverse(@)]
    /\ UNCHANGED _Elements

CallKnownIsotopes(argument) ==
    /\ call = Idle
    /\ call' = Call("known_isotopes", argument, FALSE, PyNone, PyNone)
    /\ result' = known_isotopes(argument)
    /\ used' = CatalogueUses(argument)
    /\ UNCHANGED <<_Isotopes, _Elements>>

CallCommonIsotopes(argument, most_common_only) ==
    /\ call = Idle
    /\ call' = Call("common_isotopes", argument, most_common_only, PyNone, PyNone)
    /\ result' = common_isotopes(argument, most_common_only)
    /\ used' = CatalogueUses(argument)
    /\ UNCHANGED <<_Isotopes, _Elements>>

CallStableIsotopes(argument, unstable) ==
    /\ call = Idle
    /\ call' = Call("stable_isotopes", argument, unstable, PyNone, PyNone)
    /\ result' = stable_isotopes(argument, unstable)
    /\ used' = CatalogueUses(argument)
    /\ UNCHANGED <<_Isotopes, _Elements>>

\* The caller takes the outcome; the next call can be made.
ReturnToCaller ==
    /\ call # Idle
    /\ call' = Idle
    /\ result' = Return(<<>>)
    /\ used' = {}
    /\ UNCHANGED <<_Isotopes, _Elements>>

Next ==
    \/ \E argument \in Arguments : CallKnownIsotopes(argument)
    \/ \E argument \in Arguments, most_common_only \in BOOLEAN :
           CallCommonIsotopes(argument, most_common_only)
    \/ \E argument \in Arguments, unstable \in BOOLEAN :
           CallStableIsotopes(argument, unstable)
    \/ ReturnToCaller

Spec == Init /\ [][Next]_vars

---------------------------------------------------------------------------
(* The recognizer calls                                                    *)

\* The raw arguments the recognizers are called with: identifiers that match
\* an alias, identifiers that match none, integers, and values of other types.
RecognizerStrings ==
    {
      <<"x","x">>, <<>>, <<"F","e">>, <<"H","e","-","4">>, <<"n">>,
      <<"n","-","1">>, <<"N","0">>, <<"n","e","u","t","r","o","n">>, <<"p">>,
      <<"P">>, <<"p","+">>, <<"p","-">>, <<"H">>, <<"D">>, <<"T">>,
      <<"H","-","1">>, <<"H","-","8">>, <<"e">>, <<"e","-">>, <<"e","+">>,
      <<"E","l","e","c","t","r","o","n">>,
      <<"p","o","s","i","t","r","o","n">>,
      <<"a","n","t","i","p","r","o","t","o","n">>,
      <<"A","n","t","i","n","e","u","t","r","o","n">>,
      <<"a","l","p","h","a">>, <<"A","L","P","H","A">>,
      <<"a","l","p","h","a","x">>, <<"H"," ","2","+">>, <<"H"," ","1","+">>,
      <<"H","-","1"," ","1","+">>, <<"H","e","-","4"," ","2","+">>,
      <<"H","e","-","4","+","+">>,
      <<"h","e","l","i","u","m","-","4"," ","2","+">>, <<"T","+">>,
      <<"F","e","2","+">>, <<"H","+","-">>,
      <<"a","l","p","h","a","-","p","a","r","t","i","c","l","e">>, <<"a","l","p","h","a"," ","2","+">>,
      <<"F","e","-","5","6"," ","2","+">>, <<"H","e"," ","-","2">>, <<"H","+">>,
      <<"N","-","1","4","+","+">>, <<"H","e","-","4"," ","1","+">>,
      <<"H","e","-","3"," ","2","+">>, <<"T","R","I","T","I","U","M">>,
      <<"E","-">> }

RecognizerArguments ==
    { PyStr(s) : s \in RecognizerStrings }
    \cup { PyInt(0), PyInt(1), PyInt(2), PyNone, PyFloat }

\* _is_hydrogen looks the extractor up for a string.
_is_hydrogen_uses(argument) ==
    IF argument.type = "str" THEN {"_extract_integer_charge"} ELSE {}

\* _is_proton looks the extractor up first, and isotope_symbol if the
\* extractor returned and exactly one of the two charges is given.
_is_proton_uses(arg, Z) ==
    IF CallGlobal("_extract_integer_charge",
                  _extract_integer_charge(arg)).exc # "none"
    THEN {"_extract_integer_charge"}
    ELSE IF (Z = PyNone) = (_extract_integer_charge(arg).val.Z = PyNone)
    THEN {"_extract_integer_charge"}
    ELSE {"_extract_integer_charge", "isotope_symbol"}

\* _is_alpha looks the extractor up for a string without "alpha".
_is_alpha_uses(arg) ==
    IF arg.type # "str" \/ Contains(<<"a","l","p","h","a">>, lower(arg.str))
    THEN {}
    ELSE {"_extract_integer_charge"}

\* The recognizers read no table: one of each stands for all.
InitRecognizers ==
    /\ _Isotopes = Table({}, FALSE, <<>>)
    /\ _Elements = PeriodicTable
    /\ call = Idle
    /\ result = Return(<<>>)
    /\ used = {}

CallIsNeutron(argument, mass_numb) ==
    /\ call = Idle
    /\ call' = Call("_is_neutron", argument, FALSE, mass_numb, PyNone)
    /\ result' = _is_neutron(argument, mass_numb)
    /\ used' = {}
    /\ UNCHANGED <<_Isotopes, _Elements>>

CallIsHydrogen(argument, can_be_atomic_number) ==
    /\ call = Idle
    /\ call' = Call("_is_hydrogen", argument, can_be_atomic_number, PyNone, PyNone)
    /\ result' = _is_hydrogen(argument, can_be_atomic_number)
    /\ used' = _is_hydrogen_uses(argument)
    /\ UNCHANGED <<_Isotopes, _Elements>>

CallIsElectron(arg) ==
    /\ call = Idle
    /\ call' = Call("_is_electron", arg, FALSE, PyNone, PyNone)
    /\ result' = _is_electron(arg)
    /\ used' = {}
    /\ UNCHANGED <<_Isotopes, _Elements>>

CallIsPositron(arg) ==
    /\ call = Idle
    /\ call' = Call("_is_positron", arg, FALSE, PyNone, PyNone)
    /\ result' = _is_positron(arg)
    /\ used' = {}
    /\ UNCHANGED <<_Isotopes, _Elements>>

CallIsAntiproton(arg) ==
    /\ call = Idle
    /\ call' = Call("_is_antiproton", arg, FALSE, PyNone, PyNone)
    /\ result' = _is_antiproton(arg)
    /\ used' = {}
    /\ UNCHANGED <<_Isotopes, _Elements>>

CallIsAntineutron(arg) ==
    /\ call = Idle
    /\ call' = Call("_is_antineutron", arg, FALSE, PyNone, PyNone)
    /\ result' = _is_antineutron(arg)
    /\ used' = {}
    /\ UNCHANGED <<_Isotopes, _Elements>>

CallIsProton(arg, Z, mass_numb) ==
    /\ call = Idle
    /\ call' = Call("_is_proton", arg, FALSE, mass_numb, Z)
    /\ result' = _is_proton(arg, Z, mass_numb)
    /\ used' = _is_proton_uses(arg, Z)
    /\ UNCHANGED <<_Isotopes, _Elements>>

CallIsAlpha(arg) ==
    /\ call = Idle
    /\ call' = Call("_is_alpha", arg, FALSE, PyNone, PyNone)
    /\ result' = _is_alpha(arg)
    /\ used' = _is_alpha_uses(arg)
    /\ UNCHANGED <<_Isotopes, _Elements>>

NextRecognizers ==
    \/ \E argument \in RecognizerArguments, mass_numb \in {PyNone, PyInt(1)} :
           CallIsNeutron(argument, mass_numb)
    \/ \E argument \in RecognizerArguments, can_be_atomic_number \in BOOLEAN :
           CallIsHydrogen(argument, can_be_atomic_number)
    \/ \E arg \in RecognizerArguments : CallIsElectron(arg)
    \/ \E arg \in RecognizerArguments : CallIsPositron(arg)
    \/ \E arg \in RecognizerArguments : CallIsAntiproton(arg)
    \/ \E arg \in RecognizerArguments : CallIsAntineutron(arg)
    \/ \E arg \in RecognizerArguments, Z \in {PyNone, PyInt(1), PyInt(2)},
          mass_numb \in {PyNone, PyInt(1)} :
           CallIsProton(arg, Z, mass_numb)
    \/ \E arg \in RecognizerArguments : CallIsAlpha(arg)
    \/ ReturnToCaller

SpecRecognizers == InitRecognizers /\ [][NextRecognizers]_vars

---------------------------------------------------------------------------
(* The periodic table functions                                            *)

\* An outcome together with what the call used to reach it.
Traced(outcome, uses) == [outcome |-> outcome, used |-> uses]

\* period = _Elements[symbol]["period"]; return period
\* after symbol = atomic_symbol(argument)
periodic_table_read(symbol, field) ==
    IF symbol.exc # "none" THEN Traced(symbol, {"atomic_symbol"})
    ELSE Traced(ElementGet(symbol.val, field), {"atomic_symbol", "_Elements"})

\* A variant that calls the resolver without the test of the type before it.
periodic_table_field_ResolveFirst(argument, field) ==
    periodic_table_read(CallGlobal("atomic_symbol", atomic_symbol(argument)),
                        field)

\* if not isinstance(argument, (str, int)): raise TypeError(...)
\* symbol = atomic_symbol(argument)
\* (a bool is an int)
periodic_table_field(argument, field) ==
    IF argument.type \notin {"str", "int", "bool"}
    THEN Traced(Raise("TypeError"), {})
    ELSE periodic_table_read(CallGlobal("atomic_symbol", atomic_symbol(argument)),
                             field)

periodic_table_period(argument) == periodic_table_field(argument, "period")

periodic_table_group(argument) == periodic_table_field(argument, "group")

periodic_table_block(argument) == periodic_table_field(argument, "block")

periodic_table_category(argument) == periodic_table_field(argument, "category")

---------------------------------------------------------------------------
(* ion_mass                                                                *)

\* A Particle, as the decorator particle_input hands it to ion_mass: its
\* symbol, the element, isotope and ion it is (<<>> for None), and its mass
\* as a sum of terms (<<>> for None).
Particle(symbol, element, isotope, ion, mass) ==
    [type |-> "Particle", int |-> 0, str |-> <<>>, particle |-> symbol,
     element |-> element, isotope |-> isotope, ion |-> ion, mass |-> mass]

\* The particles ion_mass is called with: ions, the positron, neutral atoms,
\* and particles that are no atoms, of which the neutrino has no mass.
Particles ==
    {
      Particle(<<"p","+">>, <<"H">>, H_1, <<"p","+">>, <<"m_p">>),
      Particle(<<"H"," ","1","+">>, <<"H">>, <<>>, <<"H"," ","1","+">>, <<"m(H 1+)">>),
      Particle(<<"H","e","-","4"," ","2","+">>, <<"H","e">>, He_4,
               <<"H","e","-","4"," ","2","+">>, <<"m(He-4 2+)">>),
      Particle(<<"e","+">>, <<>>, <<>>, <<>>, <<"m_e">>),
      Particle(<<"e","-">>, <<>>, <<>>, <<>>, <<"m_e">>),
      Particle(<<"n">>, <<>>, <<>>, <<>>, <<"m_n">>),
      Particle(<<"n","u","_","e">>, <<>>, <<>>, <<>>, <<>>),
      Particle(H_1, <<"H">>, H_1, <<>>, <<"m(H-1)">>),
      Particle(<<"H","e">>, <<"H","e">>, <<>>, <<>>, <<"m(He)">>),
      Particle(He_4, <<"H","e">>, He_4, <<>>, <<"m(He-4)">>) }

\* The body of ion_mass (the keywords Z and mass_numb are consumed by the
\* decorator, which builds the Particle).
ion_mass(particle) ==
    IF particle.ion # <<>> \/ particle.particle \in { <<"e","+">> }
    THEN Return(particle.mass)
    ELSE IF particle.isotope \in { H_1 }
    THEN Return(<<"m_p">>)
    ELSE IF particle.element # <<>>
    THEN Return(particle.mass \o <<"-m_e">>)
    ELSE IF particle.mass # <<>>
    THEN Return(particle.mass)
    ELSE Raise("InvalidIonError")

---------------------------------------------------------------------------
(* The calls of the periodic table functions and of ion_mass               *)

\* The arguments of the periodic table functions.
LookupArguments ==
    { PyNone, PyFloat, PyInt(0), PyInt(1), PyInt(2), PyInt(119),
      PyStr(<<"H">>), PyStr(<<"H","e">>), PyStr(D), PyStr(He_4),
      PyStr(<<"n">>), PyStr(<<"x","x">>) }

\* No lookup reads the isotope table: one stands for all.
InitLookups ==
    /\ _Isotopes = Table({}, FALSE, <<>>)
    /\ _Elements \in ElementTables
    /\ call = Idle
    /\ result = Return(<<>>)
    /\ used = {}

CallPeriodicTablePeriod(argument) ==
    /\ call = Idle
    /\ call' = Call("periodic_table_period", argument, FALSE, PyNone, PyNone)
    /\ result' = periodic_table_period(argument).outcome
    /\ used' = periodic_table_period(argument).used
    /\ UNCHANGED <<_Isotopes, _Elements>>

CallPeriodicTableGroup(argument) ==
    /\ call = Idle
    /\ call' = Call("periodic_table_group", argument, FALSE, PyNone, PyNone)
    /\ result' = periodic_table_group(argument).outcome
    /\ used' = periodic_table_group(argument).used
    /\ UNCHANGED <<_Isotopes, _Elements>>

CallPeriodicTableBlock(argument) ==
    /\ call = Idle
    /\ call' = Call("periodic_table_block", argument, FALSE, PyNone, PyNone)
    /\ result' = periodic_table_block(argument).outcome
    /\ used' = periodic_table_block(argument).used
    /\ UNCHANGED <<_Isotopes, _Elements>>

CallPeriodicTableCategory(argument) ==
    /\ call = Idle
    /\ call' = Call("periodic_table_category", argument, FALSE, PyNone, PyNone)
    /\ result' = periodic_table_category(argument).outcome
    /\ used' = periodic_table_category(argument).used
    /\ UNCHANGED <<_Isotopes, _Elements>>

CallIonMass(particle) ==
    /\ call = Idle
    /\ call' = Call("ion_mass", particle, FALSE, PyNone, PyNone)
    /\ result' = ion_mass(particle)
    /\ used' = {}
    /\ UNCHANGED <<_Isotopes, _Elements>>

NextLookups ==
    \/ \E argument \in LookupArguments : CallPeriodicTablePeriod(argument)
    \/ \E argument \in LookupArguments : CallPeriodicTableGroup(argument)
    \/ \E argument \in LookupArguments : CallPeriodicTableBlock(argument)
    \/ \E argument \in LookupArguments : CallPeriodicTableCategory(argument)
    \/ \E particle \in Particles : CallIonMass(particle)
    \/ ReturnToCaller

SpecLookups == InitLookups /\ [][NextLookups]_vars

---------------------------------------------------------------------------
(* All the calls, in any order                                             *)

\* The arguments of the calls.
CallArguments ==
    { PyNone, PyInt(1), PyStr(<<"H","e">>), PyStr(<<"p","-">>), PyFloat }

InitCalls ==
    /\ _Isotopes \in Tables
    /\ _Elements = PeriodicTable
    /\ call = Idle
    /\ result = Return(<<>>)
    /\ used = {}

NextCalls ==
    \/ \E argument \in CallArguments : CallKnownIsotopes(argument)
    \/ \E argument \in CallArguments, most_common_only \in BOOLEAN :
           CallCommonIsotopes(argument, most_common_only)
    \/ \E argument \in CallArguments, unstable \in BOOLEAN :
           CallStableIsotopes(argument, unstable)
    \/ \E argument \in CallArguments : CallPeriodicTablePeriod(argument)
    \/ \E argument \in CallArguments : CallPeriodicTableGroup(argument)
    \/ \E argument \in CallArguments : CallPeriodicTableBlock(argument)
    \/ \E argument \in CallArguments : CallPeriodicTableCategory(argument)
    \/ \E argument \in CallArguments : CallIsNeutron(argument, PyNone)
    \/ \E argument \in CallArguments, can_be_atomic_number \in BOOLEAN :
           CallIsHydrogen(argument, can_be_atomic_number)
    \/ \E arg \in CallArguments : CallIsElectron(arg)
    \/ \E arg \in CallArguments : CallIsPositron(arg)
    \/ \E arg \in CallArguments : CallIsAntiproton(arg)
    \/ \E arg \in CallArguments : CallIsAntineutron(arg)
    \/ \E arg \in CallArguments : CallIsProton(arg, PyNone, PyNone)
    \/ \E arg \in CallArguments : CallIsAlpha(arg)
    \/ ReturnToCaller

SpecCalls == InitCalls /\ [][NextCalls]_vars

---------------------------------------------------------------------------
(* Properties of the catalogue calls                                       *)

\* The resolver's outcome on the argument of the call.
Resolved == atomic_symbol(call.argument)

\* The call was op, made with an argument that resolves to an element.
OnElement(op) ==
    /\ call.op = op
    /\ call.argument # PyNone
    /\ Resolved.exc = "none"

CatalogueOps == {"known_isotopes", "common_isotopes", "stable_isotopes"}

\* The mass number of an isotope key: D counts as 2, T as 3.
MassOfKey(key) ==
    IF key = D THEN 2
    ELSE IF key = T THEN 3
    ELSE ParseInt(SubSeq(key, FindChar(key, "-") + 1, Len(key)))

\* The part of a key before its dash (the whole key if it has none).
PrefixBeforeDash(key) ==
    IF FindChar(key, "-") = 0 THEN key
    ELSE SubSeq(key, 1, FindChar(key, "-") - 1)

Entries(list) == { list[i] : i \in 1..Len(list) }

NoDuplicates(list) ==
    \A i, j \in 1..Len(list) : i # j => list[i] # list[j]

AbundanceOf(key) == _Isotopes.rec[key].isotopic_abundance

\* C1: known_isotopes of an element is sorted strictly ascending by mass
\* number (D as 2, T as 3), and for hydrogen it starts with H-1, D, T.
C1_KnownIsotopesAscending ==
    OnElement("known_isotopes") =>
        /\ result.exc = "none"
        /\ \A i \in 1..(Len(result.val) - 1) :
               MassOfKey(result.val[i]) < MassOfKey(result.val[i + 1])
        /\ Resolved.val = <<"H">> =>
               /\ Len(result.val) >= 3
               /\ SubSeq(result.val, 1, 3) = <<H_1, D, T>>

\* Hydrogen was listed from a table that has H-4 before H-1.
C1_Witness ==
    /\ OnElement("known_isotopes")
    /\ Resolved.val = <<"H">>
    /\ _Isotopes.order[1] = H_4
    /\ result = Return(<<H_1, D, T, H_4>>)

\* The outcome of the call's operation for the atomic number z.
PerElement(z) ==
    IF call.op = "known_isotopes" THEN known_isotopes(PyInt(z))
    ELSE IF call.op = "common_isotopes" THEN common_isotopes(PyInt(z), call.flag)
    ELSE stable_isotopes(PyInt(z), call.flag)

\* The list a followed by the list b; if a call raised, what the first such
\* call raised.
Followed(a, b) ==
    IF a.exc # "none" THEN a
    ELSE IF b.exc # "none" THEN b
    ELSE Return(a.val \o b.val)

\* The lists for the atomic numbers lo..hi, one after the other.
RECURSIVE Concatenation(_, _)
Concatenation(lo, hi) ==
    IF lo = hi THEN PerElement(lo)
    ELSE Followed(Concatenation(lo, (lo + hi) \div 2),
                  Concatenation((lo + hi) \div 2 + 1, hi))

\* C2: called with no argument, each operation returns the concatenation,
\* for Z = 1..118 in increasing order, of what it returns for Z (with the
\* same flag); it raises only what the first call for a Z that raises does.
C2_NoArgumentIsConcatenation ==
    call.op \in CatalogueOps /\ call.argument = PyNone =>
        result = Concatenation(1, NumElements)

\* All most common isotopes were listed: that of hydrogen, then that of helium.
C2_Witness ==
    /\ call.op = "common_isotopes"
    /\ call.argument = PyNone
    /\ call.flag
    /\ result = Return(<<H_1, He_4>>)

\* C3: known_isotopes of element E holds, each once, the table keys whose
\* part before the dash is E's symbol, and D and T exactly for hydrogen; so
\* every entry but D and T starts with the symbol and a dash.
C3_KnownIsotopesAreTheKeysOfTheElement ==
    OnElement("known_isotopes") =>
        /\ result.exc = "none"
        /\ Entries(result.val) =
               { key \in Entries(TableKeys) : PrefixBeforeDash(key) = Resolved.val }
               \cup (IF Resolved.val = <<"H">> THEN {D, T} ELSE {})
        /\ NoDuplicates(result.val)
        /\ \A i \in 1..Len(result.val) :
               \/ result.val[i] \in {D, T}
               \/ Slice0(result.val[i], Len(Resolved.val) + 1)
                      = Resolved.val \o <<"-">>

\* Hydrogen was listed from a table that holds helium keys too.
C3_Witness ==
    /\ OnElement("known_isotopes")
    /\ Resolved.val = <<"H">>
    /\ He_3 \in Entries(TableKeys)
    /\ He_10 \in Entries(TableKeys)
    /\ result = Return(<<H_1, D, T>>)

\* C4: common_isotopes of an element holds exactly the entries of
\* known_isotopes whose record has an isotopic abundance, the more abundant
\* first.
C4_CommonIsotopesByAbundance ==
    OnElement("common_isotopes") /\ ~call.flag =>
        /\ result.exc = "none"
        /\ Entries(result.val) =
               { key \in Entries(known_isotopes(call.argument).val) :
                     "isotopic_abundance" \in _Isotopes.rec[key].keys }
        /\ NoDuplicates(result.val)
        /\ \A i \in 1..(Len(result.val) - 1) :
               AbundanceOf(result.val[i]) >= AbundanceOf(result.val[i + 1])

\* Helium with He-4 more abundant than He-3.
C4_Witness ==
    /\ OnElement("common_isotopes")
    /\ ~call.flag
    /\ Resolved.val = <<"H","e">>
    /\ result = Return(<<He_4, He_3>>)
    /\ AbundanceOf(He_4) > AbundanceOf(He_3)

\* C5 as claimed: two isotopes of equal abundance come in ascending order of
\* mass number.
C5_EqualAbundanceAscendingMass ==
    OnElement("common_isotopes") /\ ~call.flag /\ result.exc = "none" =>
        \A i, j \in 1..Len(result.val) :
            i < j /\ AbundanceOf(result.val[i]) = AbundanceOf(result.val[j])
                => MassOfKey(result.val[i]) < MassOfKey(result.val[j])

\* C5, amended: two isotopes of equal abundance come in descending order of
\* their keys as strings (the reverse of the ascending sort of the
\* (abundance, key) pairs).
C5_EqualAbundanceDescendingKey ==
    OnElement("common_isotopes") /\ ~call.flag =>
        /\ result.exc = "none"
        /\ \A i, j \in 1..Len(result.val) :
               i < j /\ AbundanceOf(result.val[i]) = AbundanceOf(result.val[j])
                   => StrLess(result.val[j], result.val[i])

\* Helium with He-3 and He-4 equally abundant: He-4 comes first.
C5_Witness ==
    /\ OnElement("common_isotopes")
    /\ ~call.flag
    /\ result = Return(<<He_4, He_3>>)
    /\ AbundanceOf(He_3) = AbundanceOf(He_4)

\* What most_common_only = True must return, given the full list.
IsMostCommonOf(full) ==
    /\ full.exc = "none"
    /\ Len(result.val) <= 1
    /\ Len(result.val) = 0 <=> Len(full.val) = 0
    /\ Len(result.val) = 1 =>
           /\ result.val[1] = full.val[1]
           /\ \A k \in 1..Len(full.val) :
                  AbundanceOf(result.val[1]) >= AbundanceOf(full.val[k])

\* C6: with most_common_only the list has at most one entry; it is empty
\* exactly when the full list is, and else holds the first entry of the full
\* list, of the greatest abundance.
C6_MostCommonOnly ==
    OnElement("common_isotopes") /\ call.flag =>
        /\ result.exc = "none"
        /\ IsMostCommonOf(common_isotopes(call.argument, FALSE))

\* Helium with two abundant isotopes: only the more abundant is returned.
C6_Witness ==
    /\ OnElement("common_isotopes")
    /\ call.flag
    /\ common_isotopes(call.argument, FALSE) = Return(<<He_10, He_4>>)
    /\ result = Return(<<He_10>>)

\* list keeps the order of whole and holds nothing else.
IsSublistOf(list, whole) ==
    list = SelectSeq(whole, LAMBDA key : key \in Entries(list))

\* The stable and the unstable list split the known isotopes.
SplitsKnown(one, other, known) ==
    /\ other.exc = "none"
    /\ known.exc = "none"
    /\ Entries(one.val) \cap Entries(other.val) = {}
    /\ IsSublistOf(one.val, known.val)
    /\ IsSublistOf(other.val, known.val)
    /\ \A key \in Entries(known.val) :
           "is_stable" \in _Isotopes.rec[key].keys =>
               (key \in Entries(one.val)) # (key \in Entries(other.val))

\* C7: the stable and the unstable isotopes of an element are disjoint,
\* each is known_isotopes with entries left out, and every known isotope with
\* a stability flag is in exactly one.
C7_StableAndUnstableSplitKnown ==
    OnElement("stable_isotopes") =>
        /\ result.exc = "none"
        /\ SplitsKnown(result, stable_isotopes(call.argument, ~call.flag),
                       known_isotopes(call.argument))

\* C8: for an argument that resolves to an element the three operations
\* return a list, which may be empty, and raise nothing.
C8_NeverRaisesForAnElement ==
    call.op \in CatalogueOps /\ call.argument # PyNone /\ Resolved.exc = "none"
        => result.exc = "none"

\* C9: for an argument that the resolver rejects, each operation raises what
\* the resolver raised.
C9_ResolverErrorKept ==
    call.op \in CatalogueOps /\ call.argument # PyNone /\ Resolved.exc # "none"
        => result.exc = Resolved.exc

\* common_isotopes, whose first except clause is InvalidParticleError, was
\* called with a neutron.
C9_Witness ==
    /\ call.op = "common_isotopes"
    /\ call.argument = PyStr(<<"n">>)
    /\ Resolved.exc = "InvalidElementError"
    /\ result.exc = "InvalidElementError"

---------------------------------------------------------------------------
(* Properties of the recognizer calls                                      *)

RecognizerOps ==
    { "_is_neutron", "_is_hydrogen", "_is_electron", "_is_positron",
      "_is_antiproton", "_is_antineutron", "_is_proton", "_is_alpha" }

\* The aliases of the recognizers, and the helium names of the alpha
\* particle, in lower case.
AliasesInLowerCase ==
    {
      <<"n">>, <<"n","-","1">>, <<"n","0">>, <<"n","e","u","t","r","o","n">>,
      <<"p">>, <<"p","+">>, <<"p","-">>, <<"p","r","o","t","o","n">>,
      <<"p","r","o","t","i","u","m">>, <<"h">>, <<"d">>, <<"t">>,
      <<"d","e","u","t","e","r","i","u","m">>,
      <<"d","e","u","t","e","r","o","n">>, <<"t","r","i","t","o","n">>,
      <<"t","r","i","t","i","u","m">>, <<"h","y","d","r","o","g","e","n">>,
      <<"e">>, <<"e","-">>, <<"e","+">>, <<"e","l","e","c","t","r","o","n">>,
      <<"p","o","s","i","t","r","o","n">>,
      <<"a","n","t","i","p","r","o","t","o","n">>,
      <<"a","n","t","i","n","e","u","t","r","o","n">>,
      <<"a","l","p","h","a">>, <<"h","e">>, <<"h","e","l","i","u","m">> }

\* An argument that is far from every alias: a string that begins with no
\* alias in any letter case, or a value that is no string and neither 0 nor 1.
MatchesNoAlias(argument) ==
    IF argument.type = "str"
    THEN \A alias \in AliasesInLowerCase :
             Slice0(lower(argument.str), Len(alias)) # alias
    ELSE ~PyEq(argument, 0) /\ ~PyEq(argument, 1)

\* C10: every recognizer, called with an argument that matches no alias,
\* returns False and raises nothing.
C10_UnmatchedReturnsFalse ==
    call.op \in RecognizerOps /\ MatchesNoAlias(call.argument) =>
        /\ result.exc = "none"
        /\ result.val = PyBool(FALSE)

---------------------------------------------------------------------------
(* Properties of _is_hydrogen and _is_alpha                                *)

\* C11: _is_hydrogen, given a string from which a body and a charge can be
\* extracted, raises InvalidParticleError exactly when the body is a hydrogen
\* alias and the charge is over 1; otherwise it returns whether the body is a
\* hydrogen alias (False for every other body whatever the charge, True for
\* an alias with no charge or a charge of at most 1).
C11_HydrogenChargeOverOne ==
    /\ call.op = "_is_hydrogen"
    /\ call.argument.type = "str"
    /\ _extract_integer_charge(call.argument).exc = "none"
    => LET extracted == _extract_integer_charge(call.argument).val
       IN  IF /\ IsHydrogenAlias(extracted.body)
              /\ extracted.Z # PyNone
              /\ extracted.Z.int > 1
           THEN result.exc = "InvalidParticleError"
           ELSE /\ result.exc = "none"
                /\ result.val = PyBool(IsHydrogenAlias(extracted.body))

IsDoublyChargedHelium4(extracted) ==
    /\ extracted.exc = "none"
    /\ PyEq(extracted.val.Z, 2)
    /\ \/ extracted.val.body = <<"H","e","-","4">>
       \/ lower(extracted.val.body) = <<"h","e","l","i","u","m","-","4">>

\* C13: _is_alpha, given a string that does not contain "alpha" in any letter
\* case, raises nothing and returns True if the charge is +2 and the body is
\* "He-4" or "helium-4" (in any letter case), and False for every other
\* string.
C13_AlphaIsDoublyChargedHelium4 ==
    /\ call.op = "_is_alpha"
    /\ call.argument.type = "str"
    /\ ~Contains(<<"a","l","p","h","a">>, lower(call.argument.str))
    => /\ result.exc = "none"
       /\ result.val =
              PyBool(IsDoublyChargedHelium4(_extract_integer_charge(call.argument)))

---------------------------------------------------------------------------
(* Properties of the alias sets                                            *)

\* The terse aliases of C14, which match in their exact letter case only.
TerseAliases(op) ==
    CASE op = "_is_neutron" -> { <<"n">>, <<"n","-","1">>, <<"n","0">> }
      [] op = "_is_hydrogen" -> case_sensitive_aliases
      [] op = "_is_electron" -> { <<"e">>, <<"e","-">> }
      [] op = "_is_positron" -> { <<"e","+">> }
      [] op = "_is_antiproton" -> { <<"p","-">> }
      [] OTHER -> {}

\* The full names of C14, which match in any letter case.
FullNames(op) ==
    CASE op = "_is_neutron" -> { <<"n","e","u","t","r","o","n">> }
      [] op = "_is_hydrogen" -> case_insensitive_aliases
      [] op = "_is_electron" -> { <<"e","l","e","c","t","r","o","n">> }
      [] op = "_is_positron" -> { <<"p","o","s","i","t","r","o","n">> }
      [] op = "_is_antiproton" -> { <<"a","n","t","i","p","r","o","t","o","n">> }
      [] OTHER -> { <<"a","n","t","i","n","e","u","t","r","o","n">> }

\* The recognizers that test an identifier against alias sets.
AliasOps ==
    { "_is_neutron", "_is_hydrogen", "_is_electron", "_is_positron",
      "_is_antiproton", "_is_antineutron" }

\* C14: a recognizer, given a string (for _is_hydrogen: one with no charge
\* annotation), returns True if the string is one of its terse aliases in
\* the exact letter case or one of its full names in any letter case, and
\* False otherwise, whatever the mass number passed to _is_neutron.
C14_AliasLetterCase ==
    /\ call.op \in AliasOps
    /\ call.argument.type = "str"
    /\ call.op = "_is_hydrogen" =>
           _extract_integer_charge(call.argument)
               = Extracted(call.argument.str, PyNone)
    => /\ result.exc = "none"
       /\ result.val = PyBool(\/ call.argument.str \in TerseAliases(call.op)
                              \/ lower(call.argument.str) \in FullNames(call.op))

---------------------------------------------------------------------------
(* Properties of the periodic table functions and of ion_mass              *)

PeriodicOps ==
    { "periodic_table_period", "periodic_table_group", "periodic_table_block",
      "periodic_table_category" }

\* The field of the entry that a periodic table function returns.
FieldOf(op, entry) ==
    CASE op = "periodic_table_period" -> entry.period
      [] op = "periodic_table_group" -> entry.group
      [] op = "periodic_table_block" -> entry.block
      [] OTHER -> entry.category

\* C15: a periodic table function, given an argument that is neither a string
\* nor an integer, raises TypeError having neither called the resolver nor
\* read the element table; given a string or an integer that the resolver
\* resolves, it returns its field of the element table's entry for the
\* resolved symbol.
C15_TypeCheckedBeforeLookup ==
    call.op \in PeriodicOps =>
        IF call.argument.type \notin {"str", "int"}
        THEN result.exc = "TypeError" /\ used = {}
        ELSE Resolved.exc = "none" =>
                 /\ result.exc = "none"
                 /\ result.val = FieldOf(call.op, _Elements[Resolved.val])

\* periodic_table_block(None) has raised TypeError and used nothing.
C15_Witness ==
    /\ call.op = "periodic_table_block"
    /\ call.argument = PyNone
    /\ result.exc = "TypeError"
    /\ used = {}

---------------------------------------------------------------------------
(* Properties of ion_mass                                                  *)

\* C18: ion_mass returns a mass if the particle is an ion or the positron,
\* and raises InvalidIonError for every other particle.
C18_OnlyIonsHaveIonMass ==
    call.op = "ion_mass" =>
        IF call.argument.ion # <<>> \/ call.argument.particle = <<"e","+">>
        THEN result.exc = "none" /\ result.val # <<>>
        ELSE result.exc = "InvalidIonError"

---------------------------------------------------------------------------
(* Properties of the charge extraction                                     *)

\* The identifiers of C16 with the body and the charge they stand for.
ChargeExamples ==
    { [identifier |-> <<"F","e","-","5","6"," ","2","+">>,
       body |-> <<"F","e","-","5","6">>, Z |-> 2],
      [identifier |-> <<"H","e"," ","-","2">>, body |-> <<"H","e">>, Z |-> -2],
      [identifier |-> <<"H","+">>, body |-> <<"H">>, Z |-> 1],
      [identifier |-> <<"N","-","1","4","+","+">>,
       body |-> <<"N","-","1","4">>, Z |-> 2] }

\* The recognizers that call the extractor.
ExtractingOps == { "_is_hydrogen", "_is_proton", "_is_alpha" }

\* The extractor gives the examples their body and charge, and finds no
\* charge in a body it has returned.
ExtractionStrips(argument) ==
    /\ \A example \in ChargeExamples :
           argument = PyStr(example.identifier) =>
               _extract_integer_charge(argument)
                   = Extracted(example.body, PyInt(example.Z))
    /\ _extract_integer_charge(argument).exc = "none" =>
           _extract_integer_charge(PyStr(_extract_integer_charge(argument).val.body))
               = Extracted(_extract_integer_charge(argument).val.body, PyNone)

\* C16: when _is_hydrogen, _is_proton or _is_alpha has called the extractor,
\* it has obtained a body and a charge from it (the call has not failed for
\* want of the extractor), the extractor gives the identifier the stripped
\* body and the signed charge, and extracting again from that body gives the
\* same body and no charge.
C16_RecognizersExtractCharge ==
    call.op \in ExtractingOps /\ "_extract_integer_charge" \in used =>
        /\ result.exc # "NameError"
        /\ ExtractionStrips(call.argument)

---------------------------------------------------------------------------
(* Properties of all the calls                                             *)

\* What the call c returns, given the tables as they are.
OutcomeOf(c) ==
    CASE c.op = "known_isotopes" -> known_isotopes(c.argument)
      [] c.op = "common_isotopes" -> common_isotopes(c.argument, c.flag)
      [] c.op = "stable_isotopes" -> stable_isotopes(c.argument, c.flag)
      [] c.op = "periodic_table_period" -> periodic_table_period(c.argument).outcome
      [] c.op = "periodic_table_group" -> periodic_table_group(c.argument).outcome
      [] c.op = "periodic_table_block" -> periodic_table_block(c.argument).outcome
      [] c.op = "periodic_table_category" -> periodic_table_category(c.argument).outcome
      [] c.op = "_is_neutron" -> _is_neutron(c.argument, c.mass_numb)
      [] c.op = "_is_hydrogen" -> _is_hydrogen(c.argument, c.flag)
      [] c.op = "_is_electron" -> _is_electron(c.argument)
      [] c.op = "_is_positron" -> _is_positron(c.argument)
      [] c.op = "_is_antiproton" -> _is_antiproton(c.argument)
      [] c.op = "_is_antineutron" -> _is_antineutron(c.argument)
      [] c.op = "_is_proton" -> _is_proton(c.argument, c.Z, c.mass_numb)
      [] c.op = "_is_alpha" -> _is_alpha(c.argument)
      [] OTHER -> Return(<<>>)

---------------------------------------------------------------------------
(* Properties of _is_proton and of the categories                          *)

\* The calls of _is_proton that C19 names as a proton: "p" or "p+", H-1 with
\* the charge +1 in the identifier, or H-1 with Z = 1.
NamesProton(argument, Z) ==
    \/ /\ argument \in { PyStr(<<"p">>), PyStr(<<"p","+">>) }
       /\ Z = PyNone
    \/ /\ argument = PyStr(<<"H","-","1"," ","1","+">>)
       /\ Z = PyNone
    \/ /\ argument = PyStr(H_1)
       /\ PyEq(Z, 1)

\* C19: _is_proton raises nothing; it returns True for "p", "p+", for H-1
\* with the charge +1 in the identifier and for H-1 with Z = 1; it returns
\* False for "H-1" with no charge, for an identifier that is no isotope, and
\* for an argument that is no string.
C19_ProtonAliasesAndCharge ==
    call.op = "_is_proton" /\ call.mass_numb = PyNone =>
        /\ result.exc = "none"
        /\ NamesProton(call.argument, call.Z) => result.val = PyBool(TRUE)
        /\ \/ call.argument.type # "str"
           \/ /\ call.argument \in { PyStr(H_1), PyStr(<<"x","x">>) }
              /\ call.Z = PyNone
           => result.val = PyBool(FALSE)

\* The recognizers of the categories of C20.
CategoryOps ==
    { "_is_neutron", "_is_hydrogen", "_is_electron", "_is_positron",
      "_is_antiproton", "_is_antineutron", "_is_alpha" }

\* The recognizer op, called with the string in some way, returns True.
Recognizes(op, argument) ==
    \E flag \in BOOLEAN, mass_numb \in {PyNone, PyInt(1)} :
        /\ OutcomeOf(Call(op, argument, flag, mass_numb, PyNone)).exc = "none"
        /\ OutcomeOf(Call(op, argument, flag, mass_numb, PyNone)).val = PyBool(TRUE)

===========================================================================
